---- MODULE Spec2Model ----
(***************************************************************************)
(* go-shortener: the URL service (internal/service), its asynchronous      *)
(* batch-delete worker, and the two URLRepository implementations          *)
(* (internal/repository).                                                  *)
(*                                                                         *)
(* One URLService instance is modelled: the repository main() built for    *)
(* it, the buffered channel deleteReqCh, the deleteWorker goroutine with   *)
(* its local batch, and a few caller goroutines (HTTP handlers) that call  *)
(* Shorten and BatchDelete.                                                *)
(***************************************************************************)
EXTENDS Integers, Sequences, FiniteSets, TLC

(***************************************************************************)
(* Bounds of the model (not values of the program).                        *)
(***************************************************************************)
\* BatchDelete calls a varied workload issues.
MaxReqs == 3
\* Shorten calls a workload issues.
MaxSaves == 1
\* Shorten calls of a run of the service workload.
MaxShortens == 2
\* Concurrent AuditManager.LogEvent calls, and audit writers registered.
MaxEvents == 2
MaxWriters == 2
\* Longest short code asked of generateShortURL.
MaxLen == 4
\* Longest code list a repository call is compared with.
MaxCodes == 3
\* Number of LoadToStorage calls made.
MaxAppends == 3

(***************************************************************************)
(* Values of the program.                                                  *)
(***************************************************************************)
\* make(chan deleteRequest, 100)
QueueCap == 100
\* batchSize := 50
batchSize == 50

Threads == {"t1", "t2"}
Owners == {"u1", "u2"}
Codes == {"c1", "c2"}
Originals == {"x", "y"}
\* Identifiers a caller hands to Shorten; "" asks for a generated one.
GivenIDs == {"i1"}

Idle == [op |-> "idle"]
NoRet == [op |-> "none"]
NoURL == [ID |-> "", Original |-> "", Short |-> "", UserID |-> "", IsDeleted |-> FALSE]

\* The lists of short codes callers pass to BatchDelete.
CodeLists == {<<>>, <<"c1">>, <<"c1", "c2">>}

\* The request every caller of a flooding workload sends (tag 0: not traced).
FloodReq == [ShortURLs |-> <<"c1", "c2">>, UserID |-> "u1", tag |-> 0]

\* Records a repository holds when the service is constructed: loaded from
\* the storage file (main.go:25), or rows already in the urls table.
RecA == [ID |-> "a", Original |-> "x", Short |-> "c1", UserID |-> "u1", IsDeleted |-> FALSE]
RecB == [ID |-> "b", Original |-> "y", Short |-> "c2", UserID |-> "u2", IsDeleted |-> FALSE]
LoadedStore == {RecA, RecB}

\* Workloads. flood: one goroutine calling BatchDelete in a loop with one
\* request (BenchmarkURLService_BatchDelete), which fills the channel and the
\* batch. Otherwise up to reqs traced BatchDelete calls of any content and up
\* to saves Shorten calls, from any caller goroutine.
FloodLoad == [flood |-> TRUE, reqs |-> 0, saves |-> 0, reads |-> FALSE, trace |-> FALSE]
DeleteLoad == [flood |-> FALSE, reqs |-> MaxReqs, saves |-> 0, reads |-> FALSE, trace |-> FALSE]
MixedLoad == [flood |-> FALSE, reqs |-> 1, saves |-> MaxSaves, reads |-> FALSE, trace |-> FALSE]
\* traced: the deletes workload with the history of enqueues and flushes kept.
TracedLoad == [flood |-> FALSE, reqs |-> MaxReqs, saves |-> 0, reads |-> FALSE, trace |-> TRUE]
\* listing: one delete request and handlers calling GetUserURLs.
ListLoad == [flood |-> FALSE, reqs |-> 1, saves |-> 0, reads |-> TRUE, trace |-> FALSE]
\* service: handlers calling Shorten, Resolve and GetUserURLs in any order.
ServiceLoad == [flood |-> FALSE, reqs |-> 0, saves |-> MaxShortens, reads |-> TRUE, trace |-> FALSE]

VARIABLES
  repoKind,     \* "memory" | "db": the URLRepository main() built
  store,        \* the records held: memory data map's values, or the rows of urls
  deleteReqCh,  \* URLService.deleteReqCh: the buffered requests, oldest first
  batch,        \* deleteWorker's local batch
  wpc,          \* deleteWorker's position: "select" | "flush" | "sleep"
  after,        \* where deleteWorker continues once flushBatch returns
  userURLs,     \* flushBatch's local map userID -> short codes
  todo,         \* keys of userURLs the range loop has not visited yet
  calls,        \* history: the repo.BatchDelete calls of the running flush
  call,         \* per caller goroutine: the service call it is in
  ret,          \* per caller goroutine: what its last call returned
  load,         \* the workload of this run
  nextTag,      \* history: tag of the next traced delete request
  nsaved,       \* history: Shorten calls made
  nflush,       \* history: per traced request, the flushes it was part of
  result,       \* history: per traced request, outcome of its repo call
  writers,      \* AuditManager.writers
  logcall,      \* per LogEvent call: its position, its writers copy, its loop index
  running,      \* per event and writer: goroutines started by go writer.Write
  written,      \* history: per event and writer, the Write invocations made
  gen,          \* a generateShortURL call: its position, n, the bytes b, the result
  mu,           \* memoryURLRepository.mu: the write holder and the read holders
  data,         \* memoryURLRepository.data: short code -> pointer to a model.URL
  heap,         \* the model.URL objects the pointers refer to
  rd,           \* a RedirectHandler goroutine
  sh,           \* a ShortenURLHandler goroutine
  wk,           \* the goroutine inside memoryURLRepository.BatchDelete
  svc,          \* "none" before NewURLService has run, "built" after
  workers,      \* per goroutine id: a deleteWorker's position and batch length
  buffered,     \* number of requests in deleteReqCh's buffer
  sendq,        \* the callers blocked in a send on deleteReqCh, oldest first
  caller,       \* per caller goroutine: "idle" | "blocked"
  file,         \* the storage file: whether it exists, and the JSON array in it
  smu,          \* Storage.mu: the goroutine holding it, or Nil
  ap,           \* per handler goroutine: its LoadToStorage call
  ld,           \* the LoadFromStorage call
  loaded,       \* the data map of the repository LoadFromStorage fills
  appended,     \* history: the records of the LoadToStorage calls that returned nil
  enq,          \* history: the requests sent on deleteReqCh, in the order sent
  flushes       \* history: the batches handed to flushBatch, in order

histVars == <<enq, flushes>>

serviceVars == <<repoKind, store, deleteReqCh, batch, wpc, after, userURLs, todo,
                 calls, call, ret, load, nextTag, nsaved, nflush, result, histVars>>

auditVars == <<writers, logcall, running, written>>

genVars == <<gen>>

raceVars == <<mu, data, heap, rd, sh, wk>>

batcherVars == <<svc, workers, buffered, sendq, caller>>

storageVars == <<file, smu, ap, ld, loaded, appended>>

sideVars == <<genVars, raceVars, batcherVars, storageVars>>

allButGen == <<serviceVars, auditVars, raceVars, batcherVars, storageVars>>

allButRace == <<serviceVars, auditVars, genVars, batcherVars, storageVars>>

allButBatcher == <<serviceVars, auditVars, genVars, raceVars, storageVars>>

allButStorage == <<serviceVars, auditVars, genVars, raceVars, batcherVars>>

vars == <<repoKind, store, deleteReqCh, batch, wpc, after, userURLs, todo,
          calls, call, ret, load, nextTag, nsaved, nflush, result,
          writers, logcall, running, written, gen,
          mu, data, heap, rd, sh, wk, enq, flushes,
          svc, workers, buffered, sendq, caller,
          file, smu, ap, ld, loaded, appended>>

Tags == 1..MaxReqs

Range(s) == {s[i] : i \in 1..Len(s)}

EmptyMap == [u \in {} |-> <<>>]

(***************************************************************************)
(* memoryURLRepository                                                     *)
(***************************************************************************)
\* Mutant of memSave: the write starts from an empty map (a lost update).
memSaveLost(st, url) == {url}

\* r.data[url.Short] = url: the map holds one record per short code.
memSave(st, url) == {r \in st : r.Short # url.Short} \cup {url}

\* Mutant of memBatchDeleteFrom: the user's matching records are removed.
RECURSIVE memBatchDeleteFromErase(_, _, _, _)
memBatchDeleteFromErase(st, shortURLs, userID, i) ==
  IF i > Len(shortURLs) THEN st
  ELSE LET short == shortURLs[i]
           hit == {r \in st : r.Short = short /\ r.UserID = userID /\ ~r.IsDeleted}
       IN memBatchDeleteFromErase(st \ hit, shortURLs, userID, i + 1)

\* Mutant of memBatchDeleteFrom: the flag of a listed record of the user is
\* flipped, whatever it was.
RECURSIVE memBatchDeleteFromFlip(_, _, _, _)
memBatchDeleteFromFlip(st, shortURLs, userID, i) ==
  IF i > Len(shortURLs) THEN st
  ELSE LET short == shortURLs[i]
           hit == {r \in st : r.Short = short /\ r.UserID = userID}
           st2 == (st \ hit) \cup {[r EXCEPT !.IsDeleted = ~r.IsDeleted] : r \in hit}
       IN memBatchDeleteFromFlip(st2, shortURLs, userID, i + 1)

\* Mutant of memBatchDeleteFrom: a listed record of another user is restored.
RECURSIVE memBatchDeleteFromRestore(_, _, _, _)
memBatchDeleteFromRestore(st, shortURLs, userID, i) ==
  IF i > Len(shortURLs) THEN st
  ELSE LET short == shortURLs[i]
           hit == {r \in st : r.Short = short}
           st2 == (st \ hit) \cup {[r EXCEPT !.IsDeleted = (r.UserID = userID)] : r \in hit}
       IN memBatchDeleteFromRestore(st2, shortURLs, userID, i + 1)

\* The loop of memoryURLRepository.BatchDelete over shortURLs[i..].
RECURSIVE memBatchDeleteFrom(_, _, _, _)
memBatchDeleteFrom(st, shortURLs, userID, i) ==
  IF i > Len(shortURLs) THEN st
  ELSE LET short == shortURLs[i]
           hit == {r \in st : r.Short = short /\ r.UserID = userID /\ ~r.IsDeleted}
           st2 == (st \ hit) \cup {[r EXCEPT !.IsDeleted = TRUE] : r \in hit}
       IN memBatchDeleteFrom(st2, shortURLs, userID, i + 1)

\* memoryURLRepository.BatchDelete: always returns nil.
memBatchDelete(st, shortURLs, userID) ==
  {[store |-> memBatchDeleteFrom(st, shortURLs, userID, 1), err |-> "nil"]}

(***************************************************************************)
(* DataBaseURLRepository                                                   *)
(***************************************************************************)
\* UPDATE urls SET is_deleted = TRUE WHERE short_url = ANY($1) AND user_id = $2
dbUpdateDeleted(st, shortURLs, userID) ==
  {IF r.Short \in Range(shortURLs) /\ r.UserID = userID
     THEN [r EXCEPT !.IsDeleted = TRUE] ELSE r : r \in st}

\* Mutant of dbBatchDelete: the statement is executed for an empty list too.
dbBatchDeleteAlwaysExec(st, shortURLs, userID) ==
  {[store |-> dbUpdateDeleted(st, shortURLs, userID), err |-> "nil"],
   [store |-> st, err |-> "exec"]}

\* DataBaseURLRepository.BatchDelete: nil without a statement for an empty
\* list; otherwise the UPDATE is applied, or Exec fails and nothing changes.
dbBatchDelete(st, shortURLs, userID) ==
  IF Len(shortURLs) = 0
    THEN {[store |-> st, err |-> "nil"]}
    ELSE {[store |-> dbUpdateDeleted(st, shortURLs, userID), err |-> "nil"],
          [store |-> st, err |-> "exec"]}

\* repo.BatchDelete through the URLRepository interface: the possible outcomes.
repoBatchDelete(kind, st, shortURLs, userID) ==
  IF kind = "memory" THEN memBatchDelete(st, shortURLs, userID)
                     ELSE dbBatchDelete(st, shortURLs, userID)

\* DataBaseURLRepository.Save: INSERT ... ON CONFLICT (original_url) DO NOTHING,
\* then the id and short_url of the inserted row or of the row already there.
\* nil is returned as NoURL. The primary key id rejects a second row with it.
dbSave(st, url) ==
  IF \E r \in st : r.Original = url.Original
    THEN LET old == CHOOSE r \in st : r.Original = url.Original
         IN [store |-> st,
             url |-> [url EXCEPT !.ID = old.ID, !.Short = old.Short],
             err |-> "ErrURLAlreadyExists"]
    ELSE IF \E r \in st : r.ID = url.ID
      THEN [store |-> st, url |-> NoURL, err |-> "exec"]
      ELSE [store |-> st \cup {[url EXCEPT !.IsDeleted = FALSE]}, url |-> url, err |-> "nil"]

\* repo.Save through the URLRepository interface.
repoSave(kind, st, url) ==
  IF kind = "memory"
    THEN [store |-> memSave(st, url), url |-> url, err |-> "nil"]
    ELSE dbSave(st, url)

\* Mutant of repoGetByShortURL: a miss gives the zero record and no error.
repoGetByShortURLZero(kind, st, id) ==
  IF \E r \in st : r.Short = id
    THEN {[url |-> r, err |-> "nil"] : r \in {x \in st : x.Short = id}}
    ELSE {[url |-> NoURL, err |-> "nil"]}

\* GetByShortURL: the results a lookup of short code id can give. The memory
\* map has at most one record per key; QueryRow takes the first row of an
\* unordered SELECT when several rows carry the short code.
repoGetByShortURL(kind, st, id) ==
  IF \E r \in st : r.Short = id
    THEN {[url |-> r, err |-> "nil"] : r \in {x \in st : x.Short = id}}
    ELSE {[url |-> NoURL, err |-> "ErrNotFound"]}

\* memoryURLRepository.GetByUserID: copies of the user's records (the map is
\* ranged in any order, so the slice is taken as a set); ErrNotFound when
\* there is none. nil is returned as {}.
memGetByUserID(st, userID) ==
  LET found == {r \in st : r.UserID = userID}
  IN IF found = {} THEN [urls |-> {}, err |-> "ErrNotFound"]
                   ELSE [urls |-> found, err |-> "nil"]

\* DataBaseURLRepository.GetByUserID: SELECT id, short_url, original_url,
\* user_id, so IsDeleted keeps its zero value; ErrNotFound when no row.
dbGetByUserID(st, userID) ==
  LET rows == {[r EXCEPT !.IsDeleted = FALSE] : r \in {x \in st : x.UserID = userID}}
  IN IF rows = {} THEN [urls |-> {}, err |-> "ErrNotFound"]
                  ELSE [urls |-> rows, err |-> "nil"]

\* repo.GetByUserID through the URLRepository interface.
repoGetByUserID(kind, st, userID) ==
  IF kind = "memory" THEN memGetByUserID(st, userID) ELSE dbGetByUserID(st, userID)

(***************************************************************************)
(* URLService                                                              *)
(***************************************************************************)
\* URLService.Resolve: the repository's answer, the record dropped on error.
Resolve(shortURL) == repoGetByShortURL(repoKind, store, shortURL)

\* flushBatch's first loop: userURLs[req.UserID] = append(userURLs[req.UserID],
\* req.ShortURLs...) for the requests of the batch in order.
\* Mutant of groupFrom: every request is filed under the first request's user.
RECURSIVE groupFromFirstUser(_, _, _)
groupFromFirstUser(m, b, i) ==
  IF i > Len(b) THEN m
  ELSE LET key == b[1].UserID
           old == IF key \in DOMAIN m THEN m[key] ELSE <<>>
       IN groupFromFirstUser([u \in {key} |-> old \o b[i].ShortURLs], b, i + 1)

\* Mutant of groupFrom: a request's codes are put in front of the owner's list.
RECURSIVE groupFromPrepend(_, _, _)
groupFromPrepend(m, b, i) ==
  IF i > Len(b) THEN m
  ELSE LET req == b[i]
           old == IF req.UserID \in DOMAIN m THEN m[req.UserID] ELSE <<>>
       IN groupFromPrepend([u \in DOMAIN m \cup {req.UserID} |->
                              IF u = req.UserID THEN req.ShortURLs \o old ELSE m[u]],
                           b, i + 1)

\* Mutant of groupFrom: a request's codes replace the owner's list.
RECURSIVE groupFromReplace(_, _, _)
groupFromReplace(m, b, i) ==
  IF i > Len(b) THEN m
  ELSE LET req == b[i]
       IN groupFromReplace([u \in DOMAIN m \cup {req.UserID} |->
                              IF u = req.UserID THEN req.ShortURLs ELSE m[u]],
                           b, i + 1)

RECURSIVE groupFrom(_, _, _)
groupFrom(m, b, i) ==
  IF i > Len(b) THEN m
  ELSE LET req == b[i]
           old == IF req.UserID \in DOMAIN m THEN m[req.UserID] ELSE <<>>
       IN groupFrom([u \in DOMAIN m \cup {req.UserID} |->
                       IF u = req.UserID THEN old \o req.ShortURLs ELSE m[u]],
                    b, i + 1)

groupByUser(b) == groupFrom(EmptyMap, b, 1)

\* Mutant of chanCanSend: one request more than the capacity is let in.
chanCanSendOneMore(ch) == Len(ch) <= QueueCap

\* A send on deleteReqCh proceeds only while the buffer has room.
chanCanSend(ch) == Len(ch) < QueueCap

\* Mutant of batchDeleteReturn: a short code no record holds is reported.
batchDeleteReturnChecked(req) ==
  [op |-> "BatchDelete", url |-> NoURL,
   err |-> IF \A c \in Range(req.ShortURLs) : \E r \in store : r.Short = c
             THEN "nil" ELSE "ErrNotFound"]

\* What URLService.BatchDelete returns once its send has gone through.
batchDeleteReturn(req) == [op |-> "BatchDelete", url |-> NoURL, err |-> "nil"]

\* The id Shorten gives the record: the caller's, or uuid.New().
recordID(id) == IF id = "" THEN ToString(nsaved + 1) ELSE id

(***************************************************************************)
(* generateShortURL                                                        *)
(***************************************************************************)
\* Values rand.Reader may give for a byte.
SampleBytes == {0, 77, 255}

GenIdle == [pc |-> "idle", n |-> 0, b |-> <<>>, out |-> <<>>, panic |-> FALSE]

GenInit == gen = GenIdle

\* base64.RawURLEncoding of the bytes b[i..]: the indices into the URL-safe
\* alphabet of the characters, three bytes giving four characters and a rest
\* of one or two bytes giving two or three, without padding.
RECURSIVE encodeFrom(_, _)
encodeFrom(b, i) ==
  LET left == Len(b) - i + 1
  IN IF left <= 0 THEN <<>>
     ELSE IF left = 1
       THEN <<b[i] \div 4, (b[i] % 4) * 16>>
     ELSE IF left = 2
       THEN <<b[i] \div 4, (b[i] % 4) * 16 + b[i + 1] \div 16, (b[i + 1] % 16) * 4>>
     ELSE <<b[i] \div 4, (b[i] % 4) * 16 + b[i + 1] \div 16,
            (b[i + 1] % 16) * 4 + b[i + 2] \div 64, b[i + 2] % 64>>
          \o encodeFrom(b, i + 3)

EncodeToString(b) == encodeFrom(b, 1)

\* Mutant of bufferLen: only the bytes whose encoding fits in n characters.
bufferLenTight(n) == (3 * n) \div 4

\* b := make([]byte, n)
bufferLen(n) == n

\* s[:n]: a slice expression panics when n exceeds len(s).
sliceTo(str, n) ==
  IF n <= Len(str) THEN [panic |-> FALSE, str |-> SubSeq(str, 1, n)]
                   ELSE [panic |-> TRUE, str |-> <<>>]

\* generateShortURL(n) is called: b := make([]byte, n)
GenCall ==
  /\ gen.pc = "idle"
  /\ \E n \in 0..MaxLen :
       gen' = [GenIdle EXCEPT !.pc = "read", !.n = n, !.b = [k \in 1..bufferLen(n) |-> 0]]
  /\ UNCHANGED allButGen

\* io.ReadFull(rand.Reader, b) fills b with random bytes.
GenRead ==
  /\ gen.pc = "read"
  /\ \E b \in [1..Len(gen.b) -> SampleBytes] :
       gen' = [gen EXCEPT !.pc = "encode", !.b = b]
  /\ UNCHANGED allButGen

\* return base64.RawURLEncoding.EncodeToString(b)[:n], nil
GenReturn ==
  /\ gen.pc = "encode"
  /\ gen' = [gen EXCEPT !.pc = "done",
                       !.out = sliceTo(EncodeToString(gen.b), gen.n).str,
                       !.panic = sliceTo(EncodeToString(gen.b), gen.n).panic]
  /\ UNCHANGED allButGen

\* The caller is ready for another call.
GenAgain ==
  /\ gen.pc = "done"
  /\ ~gen.panic
  /\ gen' = GenIdle
  /\ UNCHANGED allButGen

(***************************************************************************)
(* memoryURLRepository at the granularity of its lock and its pointers     *)
(***************************************************************************)
Objs == {"o1", "o2", "o3"}

Nil == "nil"

\* An object that is not allocated yet.
NoObj == [Short |-> "", UserID |-> "", IsDeleted |-> FALSE]

RdIdle == [pc |-> "idle", short |-> "", url |-> Nil, seen |-> FALSE]

ShIdle == [pc |-> "idle", url |-> Nil, seen |-> FALSE]

WkIdle == [pc |-> "idle", shortURLs |-> <<>>, i |-> 1, userID |-> ""]

\* A repository holding one record of u1 under c1.
RaceInit ==
  /\ mu = [w |-> Nil, r |-> {}]
  /\ heap = [o \in Objs |-> IF o = "o1"
                               THEN [Short |-> "c1", UserID |-> "u1", IsDeleted |-> FALSE]
                               ELSE NoObj]
  /\ data = [c \in Codes |-> IF c = "c1" THEN "o1" ELSE Nil]
  /\ rd = RdIdle
  /\ sh = ShIdle
  /\ wk = WkIdle

(***************************************************************************)
(* NewURLService, its worker goroutines and the channel's blocked senders   *)
(***************************************************************************)
\* Goroutine ids a deleteWorker may run under.
WorkerIDs == {"w1", "w2"}

WorkerOff == [pc |-> "off", n |-> 0, after |-> "select", groups |-> 0]

BatcherInit ==
  /\ svc = "none"
  /\ workers = [w \in WorkerIDs |-> WorkerOff]
  /\ buffered = 0
  /\ sendq = <<>>
  /\ caller = [t \in Threads |-> "idle"]

\* Mutant of startWorkers: a worker is started under every id.
startWorkersEach(ws) == [w \in WorkerIDs |-> [WorkerOff EXCEPT !.pc = "select"]]

\* go s.deleteWorker(): one goroutine.
startWorkers(ws) == [ws EXCEPT !["w1"] = [WorkerOff EXCEPT !.pc = "select"]]

\* NewURLService: the channel is made with room for 100 requests and the
\* worker is started.
NewURLService ==
  /\ svc = "none"
  /\ svc' = "built"
  /\ workers' = startWorkers(workers)
  /\ UNCHANGED <<buffered, sendq, caller>>
  /\ UNCHANGED allButBatcher

\* URLService.BatchDelete: s.deleteReqCh <- deleteRequest{...}. With room in
\* the buffer the send completes and nil is returned; with a full buffer the
\* caller is parked at the end of the channel's queue of senders.
BatchDeleteSend(t) ==
  /\ svc = "built"
  /\ caller[t] = "idle"
  /\ IF buffered < QueueCap
       THEN /\ buffered' = buffered + 1
            /\ UNCHANGED <<sendq, caller>>
       ELSE /\ sendq' = Append(sendq, t)
            /\ caller' = [caller EXCEPT ![t] = "blocked"]
            /\ UNCHANGED buffered
  /\ UNCHANGED <<svc, workers>>
  /\ UNCHANGED allButBatcher

\* Mutant of wakeSender: the sender parked last is served.
wakeSenderNewest(q) == [t |-> q[Len(q)], rest |-> SubSeq(q, 1, Len(q) - 1)]

\* A receive from a full buffer with parked senders moves the request of
\* the sender parked first into the buffer and lets that sender go on.
wakeSender(q) == [t |-> Head(q), rest |-> Tail(q)]

\* The number of owner groups a batch of n requests may have.
groupCounts(n) == {g \in 1..Cardinality(Owners) : g <= n}

\* select, case req := <-s.deleteReqCh: batch = append(batch, req), and the
\* flush when len(batch) >= batchSize.
WReceive(w) ==
  /\ workers[w].pc = "select"
  /\ buffered > 0
  /\ IF sendq # <<>>
       THEN /\ sendq' = wakeSender(sendq).rest
            /\ caller' = [caller EXCEPT ![wakeSender(sendq).t] = "idle"]
            /\ UNCHANGED buffered
       ELSE /\ buffered' = buffered - 1
            /\ UNCHANGED <<sendq, caller>>
  /\ IF workers[w].n + 1 >= batchSize
       THEN \E g \in groupCounts(workers[w].n + 1) :
              workers' = [workers EXCEPT ![w] = [pc |-> "flush", n |-> @.n + 1,
                                                 after |-> "select", groups |-> g]]
       ELSE workers' = [workers EXCEPT ![w].n = @ + 1]
  /\ UNCHANGED svc
  /\ UNCHANGED allButBatcher

\* select, default: the flush of a non-empty batch, then time.Sleep.
WDefault(w) ==
  /\ workers[w].pc = "select"
  /\ buffered = 0
  /\ IF workers[w].n > 0
       THEN \E g \in groupCounts(workers[w].n) :
              workers' = [workers EXCEPT ![w] = [pc |-> "flush", n |-> @.n,
                                                 after |-> "sleep", groups |-> g]]
       ELSE workers' = [workers EXCEPT ![w].pc = "sleep"]
  /\ UNCHANGED <<svc, buffered, sendq, caller>>
  /\ UNCHANGED allButBatcher

\* flushBatch: s.repo.BatchDelete(urls, userID) is called for the next owner.
WCall(w) ==
  /\ workers[w].pc = "flush"
  /\ workers[w].groups > 0
  /\ workers' = [workers EXCEPT ![w].pc = "call"]
  /\ UNCHANGED <<svc, buffered, sendq, caller>>
  /\ UNCHANGED allButBatcher

\* The repository call returns; its error is only logged.
WCallReturn(w) ==
  /\ workers[w].pc = "call"
  /\ workers' = [workers EXCEPT ![w].pc = "flush", ![w].groups = @ - 1]
  /\ UNCHANGED <<svc, buffered, sendq, caller>>
  /\ UNCHANGED allButBatcher

\* flushBatch returns; batch = batch[:0]
WFlushReturn(w) ==
  /\ workers[w].pc = "flush"
  /\ workers[w].groups = 0
  /\ workers' = [workers EXCEPT ![w] = [pc |-> @.after, n |-> 0,
                                         after |-> "select", groups |-> 0]]
  /\ UNCHANGED <<svc, buffered, sendq, caller>>
  /\ UNCHANGED allButBatcher

\* time.Sleep(100 ms) is over.
WWake(w) ==
  /\ workers[w].pc = "sleep"
  /\ workers' = [workers EXCEPT ![w].pc = "select"]
  /\ UNCHANGED <<svc, buffered, sendq, caller>>
  /\ UNCHANGED allButBatcher

WorkerStep(w) ==
  WReceive(w) \/ WDefault(w) \/ WCall(w) \/ WCallReturn(w) \/ WFlushReturn(w) \/ WWake(w)

(***************************************************************************)
(* Storage: the file mirror of the in-memory repository                    *)
(***************************************************************************)
\* A record Shorten made with the short code of RecA: the random code may
\* repeat and memoryURLRepository.Save takes it.
RecC == [ID |-> "c", Original |-> "y", Short |-> "c1", UserID |-> "", IsDeleted |-> FALSE]

\* The records handlers pass to LoadToStorage.
Mirrored == {RecA, RecB, RecC}

\* json.Marshal of a model.URL: uuid, original_url, short_url, and user_id
\* unless it is empty (omitempty); IsDeleted is tagged "-" and left out.
toJSON(url) ==
  IF url.UserID = ""
    THEN [uuid |-> url.ID, original_url |-> url.Original, short_url |-> url.Short]
    ELSE [uuid |-> url.ID, original_url |-> url.Original, short_url |-> url.Short,
          user_id |-> url.UserID]

\* json.Unmarshal into a model.URL: fields without a key keep the zero value.
fromJSON(j) ==
  [ID |-> j.uuid, Original |-> j.original_url, Short |-> j.short_url,
   UserID |-> IF "user_id" \in DOMAIN j THEN j.user_id ELSE "",
   IsDeleted |-> FALSE]

\* os.ReadFile and json.Unmarshal into urls: nil for a missing or empty file.
readURLs(f) ==
  IF ~f.exists THEN <<>> ELSE [k \in 1..Len(f.array) |-> fromJSON(f.array[k])]

\* json.MarshalIndent(urls, "", "  ")
marshalURLs(urls) == [exists |-> TRUE, array |-> [k \in 1..Len(urls) |-> toJSON(urls[k])]]

ApIdle == [pc |-> "idle", url |-> NoURL, urls |-> <<>>]

LdIdle == [pc |-> "idle", urls |-> <<>>, i |-> 1, count |-> 0]

StorageInit ==
  /\ file = [exists |-> FALSE, array |-> <<>>]
  /\ smu = Nil
  /\ ap = [t \in Threads |-> ApIdle]
  /\ ld = LdIdle
  /\ loaded = [c \in Codes |-> NoURL]
  /\ appended = <<>>

\* s.mu.Lock() goes on once nobody holds the mutex.
storageCanLock(holder) == holder = Nil

\* A handler calls h.Storage.LoadToStorage(url): s.mu.Lock()
ApLock(t) ==
  /\ ap[t].pc = "idle"
  /\ ld.pc = "idle"
  /\ Len(appended) + Cardinality({u \in Threads : ap[u].pc # "idle"}) < MaxAppends
  /\ storageCanLock(smu)
  /\ \E url \in Mirrored : ap' = [ap EXCEPT ![t] = [ApIdle EXCEPT !.pc = "locked", !.url = url]]
  /\ smu' = t
  /\ UNCHANGED <<file, ld, loaded, appended>>
  /\ UNCHANGED allButStorage

\* data, err := os.ReadFile(s.FilePath); json.Unmarshal(data, &urls)
ApRead(t) ==
  /\ ap[t].pc = "locked"
  /\ ap' = [ap EXCEPT ![t].pc = "read", ![t].urls = readURLs(file)]
  /\ UNCHANGED <<file, smu, ld, loaded, appended>>
  /\ UNCHANGED allButStorage

\* urls = append(urls, *url); json.MarshalIndent; os.WriteFile succeeds
ApWrite(t) ==
  /\ ap[t].pc = "read"
  /\ file' = marshalURLs(Append(ap[t].urls, ap[t].url))
  /\ ap' = [ap EXCEPT ![t].pc = "written"]
  /\ UNCHANGED <<smu, ld, loaded, appended>>
  /\ UNCHANGED allButStorage

\* return nil, Unlock deferred
ApReturn(t) ==
  /\ ap[t].pc = "written"
  /\ appended' = Append(appended, ap[t].url)
  /\ ap' = [ap EXCEPT ![t] = ApIdle]
  /\ smu' = IF smu = t THEN Nil ELSE smu
  /\ UNCHANGED <<file, ld, loaded>>
  /\ UNCHANGED allButStorage

\* After a restart, main calls storage.LoadFromStorage(repo) with a new
\* in-memory repository: s.mu.Lock(), os.ReadFile, json.Unmarshal.
LdRead ==
  /\ ld.pc = "idle"
  /\ \A t \in Threads : ap[t].pc = "idle"
  /\ appended # <<>>
  /\ storageCanLock(smu)
  /\ smu' = "main"
  /\ ld' = [pc |-> "save", urls |-> readURLs(file), i |-> 1, count |-> Len(appended)]
  /\ UNCHANGED <<file, ap, loaded, appended>>
  /\ UNCHANGED allButStorage

\* for i := range urls { repo.Save(&urls[i]) }: r.data[url.Short] = url
LdSave ==
  /\ ld.pc = "save"
  /\ ld.i <= Len(ld.urls)
  /\ loaded' = [loaded EXCEPT ![ld.urls[ld.i].Short] = ld.urls[ld.i]]
  /\ ld' = [ld EXCEPT !.i = @ + 1]
  /\ UNCHANGED <<file, smu, ap, appended>>
  /\ UNCHANGED allButStorage

\* return nil, Unlock deferred
LdReturn ==
  /\ ld.pc = "save"
  /\ ld.i > Len(ld.urls)
  /\ ld' = [ld EXCEPT !.pc = "done"]
  /\ smu' = Nil
  /\ UNCHANGED <<file, ap, loaded, appended>>
  /\ UNCHANGED allButStorage

SideInit == GenInit /\ RaceInit /\ BatcherInit /\ StorageInit

\* sync.RWMutex: Lock waits for the writer and the readers to leave, RLock
\* for the writer.
canLock == mu.w = Nil /\ mu.r = {}

canRLock == mu.w = Nil

\* The object BatchDelete is about to write.
wkTarget == data[wk.shortURLs[wk.i]]

\* BatchDelete is at the assignment url.IsDeleted = true to object o.
wkWrites(o) == wk.pc = "write" /\ wkTarget = o

\* What a read of o.IsDeleted made outside the lock may give: the stored
\* value, or either value when it runs together with the assignment.
unlockedRead(o) == IF wkWrites(o) THEN BOOLEAN ELSE {heap[o].IsDeleted}

\* RedirectHandler -> Resolve -> GetByShortURL: r.mu.RLock()
RdRLock ==
  /\ rd.pc = "idle"
  /\ canRLock
  /\ \E short \in Codes : rd' = [RdIdle EXCEPT !.pc = "rlocked", !.short = short]
  /\ mu' = [mu EXCEPT !.r = @ \cup {"rd"}]
  /\ UNCHANGED <<data, heap, sh, wk>>
  /\ UNCHANGED allButRace

\* url, exists := r.data[id]; return url (the stored pointer), RUnlock deferred
RdReturn ==
  /\ rd.pc = "rlocked"
  /\ rd' = [rd EXCEPT !.pc = IF data[rd.short] = Nil THEN "done" ELSE "got",
                      !.url = data[rd.short]]
  /\ mu' = [mu EXCEPT !.r = @ \ {"rd"}]
  /\ UNCHANGED <<data, heap, sh, wk>>
  /\ UNCHANGED allButRace

\* RedirectHandler: if url.IsDeleted { ... }
RdCheck ==
  /\ rd.pc = "got"
  /\ \E seen \in unlockedRead(rd.url) : rd' = [rd EXCEPT !.pc = "done", !.seen = seen]
  /\ UNCHANGED <<mu, data, heap, sh, wk>>
  /\ UNCHANGED allButRace

RdAgain ==
  /\ rd.pc = "done"
  /\ rd' = RdIdle
  /\ UNCHANGED <<mu, data, heap, sh, wk>>
  /\ UNCHANGED allButRace

\* Shorten: url := &model.URL{...}
ShNew ==
  /\ sh.pc = "idle"
  /\ \E o \in Objs, short \in Codes, userID \in Owners :
       /\ heap[o] = NoObj
       /\ heap' = [heap EXCEPT ![o] = [Short |-> short, UserID |-> userID, IsDeleted |-> FALSE]]
       /\ sh' = [ShIdle EXCEPT !.pc = "new", !.url = o]
  /\ UNCHANGED <<mu, data, rd, wk>>
  /\ UNCHANGED allButRace

\* Save: r.mu.Lock()
ShLock ==
  /\ sh.pc = "new"
  /\ canLock
  /\ mu' = [mu EXCEPT !.w = "sh"]
  /\ sh' = [sh EXCEPT !.pc = "locked"]
  /\ UNCHANGED <<data, heap, rd, wk>>
  /\ UNCHANGED allButRace

\* Save: r.data[url.Short] = url; return url, nil (the caller's pointer)
ShStore ==
  /\ sh.pc = "locked"
  /\ data' = [data EXCEPT ![heap[sh.url].Short] = sh.url]
  /\ mu' = [mu EXCEPT !.w = Nil]
  /\ sh' = [sh EXCEPT !.pc = "saved"]
  /\ UNCHANGED <<heap, rd, wk>>
  /\ UNCHANGED allButRace

\* ShortenURLHandler: h.Storage.LoadToStorage(url) copies *url
ShUse ==
  /\ sh.pc = "saved"
  /\ \E seen \in unlockedRead(sh.url) : sh' = [sh EXCEPT !.pc = "done", !.seen = seen]
  /\ UNCHANGED <<mu, data, heap, rd, wk>>
  /\ UNCHANGED allButRace

ShAgain ==
  /\ sh.pc = "done"
  /\ sh' = ShIdle
  /\ UNCHANGED <<mu, data, heap, rd, wk>>
  /\ UNCHANGED allButRace

\* BatchDelete: r.mu.Lock()
WkLock ==
  /\ wk.pc = "idle"
  /\ canLock
  /\ \E shortURLs \in CodeLists, userID \in Owners :
       wk' = [pc |-> "locked", shortURLs |-> shortURLs, i |-> 1, userID |-> userID]
  /\ mu' = [mu EXCEPT !.w = "wk"]
  /\ UNCHANGED <<data, heap, rd, sh>>
  /\ UNCHANGED allButRace

\* for _, short := range shortURLs { if url, exists := r.data[short]; exists {
\*   if url.UserID == userID && !url.IsDeleted {
WkTest ==
  /\ wk.pc = "locked"
  /\ wk.i <= Len(wk.shortURLs)
  /\ wk' = IF /\ wkTarget # Nil
              /\ heap[wkTarget].UserID = wk.userID
              /\ ~heap[wkTarget].IsDeleted
           THEN [wk EXCEPT !.pc = "write"]
           ELSE [wk EXCEPT !.i = @ + 1]
  /\ UNCHANGED <<mu, data, heap, rd, sh>>
  /\ UNCHANGED allButRace

\* url.IsDeleted = true; r.data[short] = url
WkWrite ==
  /\ wk.pc = "write"
  /\ heap' = [heap EXCEPT ![wkTarget].IsDeleted = TRUE]
  /\ wk' = [wk EXCEPT !.pc = "locked", !.i = @ + 1]
  /\ UNCHANGED <<mu, data, rd, sh>>
  /\ UNCHANGED allButRace

\* return nil, Unlock deferred
WkReturn ==
  /\ wk.pc = "locked"
  /\ wk.i > Len(wk.shortURLs)
  /\ mu' = [mu EXCEPT !.w = Nil]
  /\ wk' = WkIdle
  /\ UNCHANGED <<data, heap, rd, sh>>
  /\ UNCHANGED allButRace

(***************************************************************************)
(* AuditManager: shares no state with the URL service                      *)
(***************************************************************************)
Events == 1..MaxEvents
WriterIDs == 1..MaxWriters

\* NewAuditManager: no writer registered; no LogEvent call made yet.
AuditInit ==
  /\ writers = <<>>
  /\ logcall = [e \in Events |-> [pc |-> "start", writers |-> <<>>, i |-> 1,
                                  registered |-> {}]]
  /\ running = [g \in Events \X WriterIDs |-> 0]
  /\ written = [g \in Events \X WriterIDs |-> 0]

\* AuditManager.RegisterWriter(writer), the lock held throughout.
RegisterWriter ==
  /\ Len(writers) < MaxWriters
  /\ writers' = Append(writers, Len(writers) + 1)
  /\ UNCHANGED <<logcall, running, written>>
  /\ UNCHANGED serviceVars
  /\ UNCHANGED sideVars

\* Mutant of copyWriters: the copy made is one element short.
copyWritersShort(ws) == SubSeq(ws, 1, Len(ws) - 1)

\* writers := make([]AuditWriter, len(am.writers)); copy(writers, am.writers)
copyWriters(ws) == [k \in 1..Len(ws) |-> ws[k]]

\* LogEvent for event e builds the event and, under the lock, copies the
\* writers slice. History: registered, the writers registered at that moment.
LogEventCopy(e) ==
  /\ logcall[e].pc = "start"
  /\ logcall' = [logcall EXCEPT ![e] = [pc |-> "range", writers |-> copyWriters(writers),
                                        i |-> 1, registered |-> Range(writers)]]
  /\ UNCHANGED <<writers, running, written>>
  /\ UNCHANGED serviceVars
  /\ UNCHANGED sideVars

\* One iteration of for _, writer := range writers { go writer.Write(ctx, event) }
LogEventGo(e) ==
  /\ logcall[e].pc = "range"
  /\ logcall[e].i <= Len(logcall[e].writers)
  /\ LET writer == logcall[e].writers[logcall[e].i]
     IN running' = [running EXCEPT ![<<e, writer>>] = @ + 1]
  /\ logcall' = [logcall EXCEPT ![e].i = @ + 1]
  /\ UNCHANGED <<writers, written>>
  /\ UNCHANGED serviceVars
  /\ UNCHANGED sideVars

\* The range loop is over and LogEvent returns.
LogEventReturn(e) ==
  /\ logcall[e].pc = "range"
  /\ logcall[e].i > Len(logcall[e].writers)
  /\ logcall' = [logcall EXCEPT ![e].pc = "done"]
  /\ UNCHANGED <<writers, running, written>>
  /\ UNCHANGED serviceVars
  /\ UNCHANGED sideVars

\* A goroutine started by LogEvent runs writer.Write(ctx, event).
WriterWrite(e, w) ==
  /\ running[<<e, w>>] > 0
  /\ running' = [running EXCEPT ![<<e, w>>] = @ - 1]
  /\ written' = [written EXCEPT ![<<e, w>>] = @ + 1]
  /\ UNCHANGED <<writers, logcall>>
  /\ UNCHANGED serviceVars
  /\ UNCHANGED sideVars

\* The state NewURLService leaves: the channel empty, the worker started.
ServiceInit ==
  /\ deleteReqCh = <<>>
  /\ batch = <<>>
  /\ wpc = "select"
  /\ after = "select"
  /\ userURLs = EmptyMap
  /\ todo = {}
  /\ calls = <<>>
  /\ call = [t \in Threads |-> Idle]
  /\ ret = [t \in Threads |-> NoRet]
  /\ nextTag = 1
  /\ nsaved = 0
  /\ nflush = [i \in Tags |-> 0]
  /\ result = [i \in Tags |-> "none"]
  /\ enq = <<>>
  /\ flushes = <<>>

InitFlood ==
  /\ repoKind = "memory"
  /\ store = LoadedStore
  /\ load = FloodLoad
  /\ ServiceInit
  /\ AuditInit
  /\ SideInit

InitDeletes ==
  /\ repoKind \in {"memory", "db"}
  /\ store = LoadedStore
  /\ load = DeleteLoad
  /\ ServiceInit
  /\ AuditInit
  /\ SideInit

InitMixed ==
  /\ repoKind \in {"memory", "db"}
  /\ store \in {{}, {RecA}, LoadedStore}
  /\ load = MixedLoad
  /\ ServiceInit
  /\ AuditInit
  /\ SideInit

InitTraced ==
  /\ repoKind \in {"memory", "db"}
  /\ store = LoadedStore
  /\ load = TracedLoad
  /\ ServiceInit
  /\ AuditInit
  /\ SideInit

InitList ==
  /\ repoKind \in {"memory", "db"}
  /\ store = LoadedStore
  /\ load = ListLoad
  /\ ServiceInit
  /\ AuditInit
  /\ SideInit

InitService ==
  /\ repoKind \in {"memory", "db"}
  /\ store \in {{}, {RecA}}
  /\ load = ServiceLoad
  /\ ServiceInit
  /\ AuditInit
  /\ SideInit

Init == InitFlood \/ InitDeletes \/ InitMixed \/ InitService

workerVars == <<batch, wpc, after, userURLs, todo, calls, nflush, result>>

(***************************************************************************)
(* Caller goroutines                                                       *)
(***************************************************************************)
\* A handler enters URLService.BatchDelete(shortURLs, userID) and reaches the
\* send statement.
CallBatchDelete(t) ==
  /\ call[t] = Idle
  /\ load.flood => t = "t1"
  /\ \E req \in IF load.flood
                  THEN {FloodReq}
                  ELSE {[ShortURLs |-> c, UserID |-> u, tag |-> nextTag] :
                          c \in CodeLists, u \in {o \in Owners : nextTag <= load.reqs}} :
       /\ call' = [call EXCEPT ![t] = [op |-> "BatchDelete", req |-> req]]
       /\ ret' = [ret EXCEPT ![t] = NoRet]
       /\ nextTag' = IF load.flood THEN nextTag ELSE nextTag + 1
  /\ UNCHANGED <<repoKind, store, deleteReqCh, load, nsaved>>
  /\ UNCHANGED workerVars
  /\ UNCHANGED histVars
  /\ UNCHANGED auditVars
  /\ UNCHANGED sideVars

\* s.deleteReqCh <- deleteRequest{...}; return nil
SendBatchDelete(t) ==
  /\ call[t].op = "BatchDelete"
  /\ chanCanSend(deleteReqCh)
  /\ deleteReqCh' = Append(deleteReqCh, call[t].req)
  /\ ret' = [ret EXCEPT ![t] = batchDeleteReturn(call[t].req)]
  /\ call' = [call EXCEPT ![t] = Idle]
  /\ enq' = IF load.trace THEN Append(enq, call[t].req) ELSE enq
  /\ UNCHANGED <<repoKind, store, load, nextTag, nsaved, flushes>>
  /\ UNCHANGED workerVars
  /\ UNCHANGED auditVars
  /\ UNCHANGED sideVars

\* URLService.Shorten(original, id, userID): the short code is random, the
\* record is handed to repo.Save and Save's result is returned.
Shorten(t) ==
  /\ call[t] = Idle
  /\ nsaved < load.saves
  /\ \E original \in Originals, id \in GivenIDs \cup {""}, userID \in Owners,
        shortURL \in Codes :
       LET url == [ID |-> recordID(id), Original |-> original, Short |-> shortURL,
                   UserID |-> userID, IsDeleted |-> FALSE]
           saved == repoSave(repoKind, store, url)
       IN /\ store' = saved.store
          /\ ret' = [ret EXCEPT ![t] = [op |-> "Shorten", url |-> saved.url,
                                        err |-> saved.err, n |-> nsaved + 1,
                                        args |-> <<original, id, userID>>]]
  /\ nsaved' = nsaved + 1
  /\ UNCHANGED <<repoKind, deleteReqCh, call, load, nextTag>>
  /\ UNCHANGED workerVars
  /\ UNCHANGED histVars
  /\ UNCHANGED auditVars
  /\ UNCHANGED sideVars

\* URLService.Resolve(shortURL), called by a handler.
CallResolve(t) ==
  /\ call[t] = Idle
  /\ load.reads
  /\ \E shortURL \in Codes : \E res \in Resolve(shortURL) :
       ret' = [ret EXCEPT ![t] = [op |-> "Resolve", url |-> res.url,
                                  err |-> res.err, args |-> <<shortURL>>]]
  /\ UNCHANGED <<repoKind, store, deleteReqCh, call, load, nextTag, nsaved>>
  /\ UNCHANGED workerVars
  /\ UNCHANGED histVars
  /\ UNCHANGED auditVars
  /\ UNCHANGED sideVars

\* URLService.GetUserURLs(userID): return s.repo.GetByUserID(userID)
GetUserURLs(t) ==
  /\ call[t] = Idle
  /\ load.reads
  /\ \E userID \in Owners :
       LET res == repoGetByUserID(repoKind, store, userID)
       IN ret' = [ret EXCEPT ![t] = [op |-> "GetUserURLs", urls |-> res.urls,
                                     err |-> res.err, args |-> <<userID>>]]
  /\ UNCHANGED <<repoKind, store, deleteReqCh, call, load, nextTag, nsaved>>
  /\ UNCHANGED workerVars
  /\ UNCHANGED histVars
  /\ UNCHANGED auditVars
  /\ UNCHANGED sideVars

(***************************************************************************)
(* deleteWorker                                                            *)
(***************************************************************************)
\* History: the traced requests of a batch.
tagsOf(b) == {b[i].tag : i \in 1..Len(b)} \ {0}

\* s.flushBatch(batch) is entered: its first loop fills userURLs.
enterFlush(b, next) ==
  /\ wpc' = "flush"
  /\ after' = next
  /\ userURLs' = groupByUser(b)
  /\ todo' = DOMAIN groupByUser(b)
  /\ calls' = <<>>
  /\ nflush' = [i \in Tags |-> IF i \in tagsOf(b) THEN nflush[i] + 1 ELSE nflush[i]]
  /\ flushes' = IF load.trace THEN Append(flushes, b) ELSE flushes

\* Mutant of afterReceive: the batch is flushed only once it exceeds batchSize.
afterReceiveOver(b) == IF Len(b) > batchSize THEN "flush" ELSE "select"

\* What the worker does with the batch after case req := <-s.deleteReqCh.
afterReceive(b) == IF Len(b) >= batchSize THEN "flush" ELSE "select"

\* What the worker does in the default case.
afterDefault(b) == IF Len(b) > 0 THEN "flush" ELSE "sleep"

\* Mutant of chanRecv: the newest buffered request is taken.
chanRecvNewest(ch) == [req |-> ch[Len(ch)], rest |-> SubSeq(ch, 1, Len(ch) - 1)]

\* A receive from the buffered channel takes the oldest buffered request.
chanRecv(ch) == [req |-> Head(ch), rest |-> Tail(ch)]

\* select, case req := <-s.deleteReqCh
Receive ==
  /\ wpc = "select"
  /\ deleteReqCh # <<>>
  /\ deleteReqCh' = chanRecv(deleteReqCh).rest
  /\ batch' = Append(batch, chanRecv(deleteReqCh).req)
  /\ IF afterReceive(batch') = "flush"
       THEN enterFlush(batch', "select")
       ELSE UNCHANGED <<wpc, after, userURLs, todo, calls, nflush, flushes>>
  /\ UNCHANGED <<repoKind, store, call, ret, load, nextTag, nsaved, result, enq>>
  /\ UNCHANGED auditVars
  /\ UNCHANGED sideVars

\* select, default: no request is buffered
Default ==
  /\ wpc = "select"
  /\ deleteReqCh = <<>>
  /\ IF afterDefault(batch) = "flush"
       THEN enterFlush(batch, "sleep")
       ELSE /\ wpc' = "sleep"
            /\ UNCHANGED <<after, userURLs, todo, calls, nflush, flushes>>
  /\ UNCHANGED <<repoKind, store, deleteReqCh, batch, call, ret, load, nextTag,
                 nsaved, result, enq>>
  /\ UNCHANGED auditVars
  /\ UNCHANGED sideVars

\* Mutant of loopAfterCall: the first error ends the loop.
loopEndsOnError(td, userID, err) == IF err = "nil" THEN td \ {userID} ELSE {}

\* Mutant of resetBatch: the flushed requests stay in the batch.
keepBatch(b) == b

\* The keys still to visit after the iteration for userID: an error is only
\* logged, the loop goes on.
loopAfterCall(td, userID, err) == td \ {userID}

\* batch = batch[:0]
resetBatch(b) == SubSeq(b, 1, 0)

\* History: the traced requests whose codes go into userID's call.
tagsOfUser(b, userID) == {b[i].tag : i \in {j \in 1..Len(b) : b[j].UserID = userID}} \ {0}

\* One iteration of for userID, urls := range userURLs (map order is not
\* fixed): s.repo.BatchDelete(urls, userID), an error only logged.
RepoCall ==
  /\ wpc = "flush"
  /\ \E userID \in todo :
       \E out \in repoBatchDelete(repoKind, store, userURLs[userID], userID) :
         /\ store' = out.store
         /\ calls' = Append(calls, [urls |-> userURLs[userID], userID |-> userID,
                                    err |-> out.err])
         /\ todo' = loopAfterCall(todo, userID, out.err)
         /\ result' = [i \in Tags |->
                         IF i \in tagsOfUser(batch, userID)
                           THEN (IF out.err = "nil" THEN "ok" ELSE "err")
                           ELSE result[i]]
  /\ UNCHANGED <<repoKind, deleteReqCh, batch, wpc, after, userURLs, call, ret,
                 load, nextTag, nsaved, nflush>>
  /\ UNCHANGED histVars
  /\ UNCHANGED auditVars
  /\ UNCHANGED sideVars

\* flushBatch returns; batch = batch[:0]; after the default case's flush,
\* time.Sleep begins.
FlushReturn ==
  /\ wpc = "flush"
  /\ todo = {}
  /\ batch' = resetBatch(batch)
  /\ wpc' = after
  /\ userURLs' = EmptyMap
  /\ calls' = <<>>
  /\ UNCHANGED <<repoKind, store, deleteReqCh, after, todo, call, ret, load,
                 nextTag, nsaved, nflush, result>>
  /\ UNCHANGED histVars
  /\ UNCHANGED auditVars
  /\ UNCHANGED sideVars

\* time.Sleep(100 ms) is over: back to the select.
Wake ==
  /\ wpc = "sleep"
  /\ wpc' = "select"
  /\ UNCHANGED <<repoKind, store, deleteReqCh, batch, after, userURLs, todo, calls,
                 call, ret, load, nextTag, nsaved, nflush, result>>
  /\ UNCHANGED histVars
  /\ UNCHANGED auditVars
  /\ UNCHANGED sideVars

Worker == Receive \/ Default \/ RepoCall \/ FlushReturn \/ Wake

Next ==
  \/ \E t \in Threads : CallBatchDelete(t)
  \/ \E t \in Threads : SendBatchDelete(t)
  \/ \E t \in Threads : Shorten(t)
  \/ \E t \in Threads : CallResolve(t)
  \/ \E t \in Threads : GetUserURLs(t)
  \/ Receive
  \/ Default
  \/ RepoCall
  \/ FlushReturn
  \/ Wake

Spec == Init /\ [][Next]_vars

\* The Go scheduler runs the worker goroutine whenever it can take a step;
\* callers are free to stop calling.
InitLive == InitDeletes \/ InitMixed \/ InitService
LiveSpec == InitLive /\ [][Next]_vars /\ WF_vars(Worker)

\* The service used for deletions only, with the history kept: callers
\* enqueue, the worker drains and flushes, nobody shortens.
QueueNext ==
  \/ \E t \in Threads : CallBatchDelete(t)
  \/ \E t \in Threads : SendBatchDelete(t)
  \/ Receive
  \/ Default
  \/ RepoCall
  \/ FlushReturn
  \/ Wake

QueueSpec == InitTraced /\ [][QueueNext]_vars

\* Handlers listing the records of an owner while a delete request is
\* enqueued and flushed.
ListNext ==
  \/ \E t \in Threads : CallBatchDelete(t)
  \/ \E t \in Threads : SendBatchDelete(t)
  \/ \E t \in Threads : GetUserURLs(t)
  \/ Receive
  \/ Default
  \/ RepoCall
  \/ FlushReturn
  \/ Wake

ListSpec == InitList /\ [][ListNext]_vars

\* The file mirror: handlers append concurrently, then the process restarts
\* and loads the file into a new in-memory repository.
StorageNext ==
  \/ \E t \in Threads : ApLock(t)
  \/ \E t \in Threads : ApRead(t)
  \/ \E t \in Threads : ApWrite(t)
  \/ \E t \in Threads : ApReturn(t)
  \/ LdRead
  \/ LdSave
  \/ LdReturn

\* The audit manager on its own: handlers register writers and call LogEvent
\* concurrently; the URL service is left at rest.
InitAudit ==
  /\ repoKind = "memory"
  /\ store = {}
  /\ load = ServiceLoad
  /\ ServiceInit
  /\ AuditInit
  /\ SideInit

AuditNext ==
  \/ RegisterWriter
  \/ \E e \in Events : LogEventCopy(e)
  \/ \E e \in Events : LogEventGo(e)
  \/ \E e \in Events : LogEventReturn(e)
  \/ \E e \in Events, w \in WriterIDs : WriterWrite(e, w)

\* Every started goroutine is scheduled: the LogEvent calls finish their
\* loops and the Write goroutines run.
AuditFair ==
  /\ \A e \in Events : WF_vars(LogEventGo(e) \/ LogEventReturn(e))
  /\ \A e \in Events, w \in WriterIDs : WF_vars(WriterWrite(e, w))

AuditSpec == InitAudit /\ [][AuditNext]_vars /\ AuditFair

\* generateShortURL on its own, called with every length up to MaxLen.
GenNext == GenCall \/ GenRead \/ GenReturn \/ GenAgain

GenSpec == InitAudit /\ [][GenNext]_vars

StorageSpec == InitAudit /\ [][StorageNext]_vars

\* The construction of the service, its worker goroutines and callers that
\* send whenever they like. A started worker goroutine is scheduled again and
\* again, its sleep ends and its repository calls return.
BatcherNext ==
  \/ NewURLService
  \/ \E t \in Threads : BatchDeleteSend(t)
  \/ \E w \in WorkerIDs : WReceive(w)
  \/ \E w \in WorkerIDs : WDefault(w)
  \/ \E w \in WorkerIDs : WCall(w)
  \/ \E w \in WorkerIDs : WCallReturn(w)
  \/ \E w \in WorkerIDs : WFlushReturn(w)
  \/ \E w \in WorkerIDs : WWake(w)

BatcherSpec ==
  /\ InitAudit /\ [][BatcherNext]_vars
  /\ WF_vars(NewURLService)
  /\ \A w \in WorkerIDs : WF_vars(WorkerStep(w))

\* The in-memory repository used by a redirecting and a shortening request
\* handler while the batcher deletes.
RaceNext ==
  \/ RdRLock \/ RdReturn \/ RdCheck \/ RdAgain
  \/ ShNew \/ ShLock \/ ShStore \/ ShUse \/ ShAgain
  \/ WkLock \/ WkTest \/ WkWrite \/ WkReturn

RaceSpec == InitAudit /\ [][RaceNext]_vars

(***************************************************************************)
(* Properties                                                              *)
(***************************************************************************)
\* Traced request i is buffered in the channel.
InChannel(i) == \E k \in 1..Len(deleteReqCh) : deleteReqCh[k].tag = i

\* Traced request i while it is in the worker's batch.
reqInBatch(i) == batch[CHOOSE k \in 1..Len(batch) : batch[k].tag = i]

\* The step in which request i's repo.BatchDelete call succeeds leaves every
\* stored record of its owner with one of its codes deleted, and Resolve of
\* such a code gives a deleted record.
C1_Applied(i) ==
  (result[i] # "ok" /\ result'[i] = "ok") =>
    LET req == reqInBatch(i)
    IN \A c \in Range(req.ShortURLs) :
         /\ \A r \in store' : (r.Short = c /\ r.UserID = req.UserID) => r.IsDeleted
         /\ (\E r \in store' : r.Short = c /\ r.UserID = req.UserID) =>
              \A res \in repoGetByShortURL(repoKind, store', c) :
                res.err = "nil" /\ res.url.IsDeleted

\* C1: every enqueued delete request is eventually handed to the repository
\* (the worker being scheduled), and when that call succeeds every stored
\* record with one of its codes and its owner has deleted = true and Resolve
\* of such a code returns the record with deleted = true, not NotFound.
C1_AsyncDeleteApplied ==
  /\ \A i \in Tags : InChannel(i) ~> (result[i] # "none")
  /\ [][\A i \in Tags : C1_Applied(i)]_vars

\* The codes of the batch's requests of userID.
codesOfUser(b, userID) ==
  UNION {Range(b[j].ShortURLs) : j \in {x \in 1..Len(b) : b[x].UserID = userID}}

C2_CallsScoped ==
  \A k \in 1..Len(calls) :
    Range(calls[k].urls) \subseteq codesOfUser(batch, calls[k].userID)

C2_DeleteStep ==
  \A r \in store :
    (~r.IsDeleted /\ r \notin store' /\ [r EXCEPT !.IsDeleted = TRUE] \in store') =>
      /\ Len(calls') = Len(calls) + 1
      /\ calls'[Len(calls')].userID = r.UserID
      /\ r.Short \in Range(calls'[Len(calls')].urls)
      /\ r.Short \in codesOfUser(batch, r.UserID)

\* C2: every repo.BatchDelete call of a flush carries only short codes of the
\* batch's requests of that call's owner, and a record's deleted flag is set
\* only by a call made for the record's own owner, from a request of that
\* owner naming its code.
C2_OwnerScoping == []C2_CallsScoped /\ [][C2_DeleteStep]_vars

\* A successful call named a record of another owner and left it undeleted.
C2_Witness ==
  \E k \in 1..Len(calls) :
    /\ calls[k].err = "nil"
    /\ \E r \in store : /\ r.Short \in Range(calls[k].urls)
                        /\ r.UserID # calls[k].userID
                        /\ ~r.IsDeleted

\* The step a BatchDelete call is meant to end with: its request appended
\* to the channel, nil returned.
C3_Enqueues(t) ==
  /\ deleteReqCh' = Append(deleteReqCh, call[t].req)
  /\ ret'[t].op = "BatchDelete"
  /\ ret'[t].err = "nil"

\* C3: the channel never holds more than 100 requests; a BatchDelete call
\* made while fewer than 100 are buffered can enqueue at once; while 100 are
\* buffered the call's send cannot happen (it blocks: no error, no drop); and
\* the send only ever appends the call's request and returns nil.
C3_BackPressure ==
  /\ Len(deleteReqCh) <= 100
  /\ \A t \in Threads :
       call[t].op = "BatchDelete" =>
         /\ Len(deleteReqCh) < 100 => ENABLED (SendBatchDelete(t) /\ C3_Enqueues(t))
         /\ Len(deleteReqCh) >= 100 => ~ENABLED SendBatchDelete(t)
         /\ ~ENABLED (SendBatchDelete(t) /\ ~C3_Enqueues(t))

\* A caller is blocked in BatchDelete on the full channel.
C3_Witness == Len(deleteReqCh) = 100 /\ call["t1"].op = "BatchDelete"

\* The step that ends caller t's BatchDelete call.
C4_Returns(t) == call[t].op = "BatchDelete" /\ call'[t] # call[t]

\* The step that starts caller t's BatchDelete call.
C4_Enters(t) == call[t].op # "BatchDelete" /\ call'[t].op = "BatchDelete"

C4_Step ==
  \A t \in Threads :
    /\ C4_Enters(t) => (store' = store /\ calls' = calls)
    /\ C4_Returns(t) =>
         /\ store' = store
         /\ calls' = calls
         /\ deleteReqCh' = Append(deleteReqCh, call[t].req)
         /\ ret'[t].op = "BatchDelete"
         /\ ret'[t].err = "nil"
    /\ (wpc' # wpc \/ batch' # batch \/ calls' # calls) => ret'[t] = ret[t]

\* C4: a BatchDelete call performs no repository operation (the store and the
\* log of repository calls are untouched by its steps), it only appends its
\* request to the channel, it returns nil whatever the codes given, and no
\* step of the worker, a failing flush included, changes what was returned.
C4_OnlyEnqueues == [][C4_Step]_vars

\* The only delete request made named a code no record holds, had nil
\* returned, and its repository call then failed.
C4_Witness ==
  /\ nextTag = 2
  /\ result[1] = "err"
  /\ \E t \in Threads : ret[t].op = "BatchDelete" /\ ret[t].err = "nil"
  /\ \A r \in store : r.Short # "c2"

\* Every key of userURLs has had its call once the loop is over.
C5_AllGroupsCalled ==
  (wpc = "flush" /\ todo = {}) =>
    {calls[k].userID : k \in 1..Len(calls)} = DOMAIN userURLs

\* A failing call leaves the worker in the loop with the other keys to go.
C5_ErrorStep ==
  (Len(calls') = Len(calls) + 1 /\ calls'[Len(calls')].err # "nil") =>
    /\ wpc' = "flush"
    /\ todo' = todo \ {calls'[Len(calls')].userID}
    /\ batch' = batch

\* C5: after repo.BatchDelete fails the worker still makes the calls for the
\* other owners of the flush, leaves flushBatch for its loop, and every
\* request buffered once a call has failed still reaches the repository.
C5_FailureDoesNotStop ==
  /\ []C5_AllGroupsCalled
  /\ [][C5_ErrorStep]_vars
  /\ (\E k \in 1..Len(calls) : calls[k].err # "nil") ~> (wpc # "flush")
  /\ \A i \in Tags :
       ((\E j \in Tags : result[j] = "err") /\ InChannel(i)) ~> (result[i] # "none")

\* The second call of a flush was made after the first one failed.
C5_Witness == Len(calls) = 2 /\ calls[1].err # "nil"

\* How often traced request i occurs in a call in progress, the channel and
\* the batch.
occurrences(i) ==
  Cardinality({t \in Threads : call[t].op = "BatchDelete" /\ call[t].req.tag = i})
  + Cardinality({k \in 1..Len(deleteReqCh) : deleteReqCh[k].tag = i})
  + Cardinality({k \in 1..Len(batch) : batch[k].tag = i})

InBatch(i) == \E k \in 1..Len(batch) : batch[k].tag = i

\* C6: a delete request is part of at most one flush; it leaves the channel
\* and the batch only after a repo.BatchDelete call for its owner was made
\* with its short codes; and once flushed, failed or not, it never comes
\* back into the channel or the batch.
C6_ExactlyOneFlush ==
  \A i \in Tags :
    /\ nflush[i] <= 1
    /\ i < nextTag => occurrences(i) <= 1
    /\ (i < nextTag /\ occurrences(i) = 0) => (nflush[i] = 1 /\ result[i] # "none")
    /\ result[i] # "none" => nflush[i] = 1
    /\ (occurrences(i) = 1 /\ ~(InBatch(i) /\ wpc = "flush")) =>
         (nflush[i] = 0 /\ result[i] = "none")
    /\ (InBatch(i) /\ result[i] # "none") =>
         LET req == reqInBatch(i)
             mine == {k \in 1..Len(calls) : calls[k].userID = req.UserID}
         IN /\ Cardinality(mine) = 1
            /\ \A k \in mine : Range(req.ShortURLs) \subseteq Range(calls[k].urls)

\* A request whose repository call failed is gone from the channel and the
\* batch, dropped after its one attempt.
C6_Witness ==
  \E i \in Tags : result[i] = "err" /\ occurrences(i) = 0 /\ wpc = "select"

\* The worker's select finds the channel empty and a batch below the
\* threshold waiting.
C7_FindsIdle ==
  /\ wpc = "select" /\ wpc' # wpc
  /\ deleteReqCh = <<>>
  /\ batch # <<>> /\ Len(batch) < batchSize

\* C7: on finding the channel empty with a non-empty batch the
\* worker first waits the idle interval, the batch kept, and flushes only
\* after the wait.
C7_WaitsThenFlushes ==
  [][/\ C7_FindsIdle => (wpc' = "sleep" /\ batch' = batch)
     /\ (wpc = "sleep" /\ wpc' # wpc /\ batch # <<>>) => wpc' = "flush"]_vars

C7_Step ==
  /\ C7_FindsIdle =>
       /\ wpc' = "flush"
       /\ batch' = batch
       /\ userURLs' = groupByUser(batch)
       /\ todo' = DOMAIN userURLs'
  /\ (wpc = "flush" /\ wpc' = "sleep") => (batch' = <<>> /\ Len(batch) < batchSize)
  /\ wpc = "sleep" => (batch = <<>> /\ batch' = <<>> /\ wpc' \in {"sleep", "select"})

\* What deleteWorker does instead: on finding the channel empty with a
\* non-empty batch it flushes that batch at once; the interval is slept after
\* the flush, with an empty batch, and requests arriving during the sleep
\* stay in the channel until the worker is back at its select.
C7_FlushesThenWaits == [][C7_Step]_vars

C8_Inv ==
  /\ Len(batch) <= 50
  /\ wpc # "flush" => Len(batch) < 50

C8_Step ==
  /\ (batch' # batch /\ Len(batch') = 50) =>
       (wpc' = "flush" /\ userURLs' = groupByUser(batch') /\ todo' = DOMAIN userURLs')
  /\ (wpc = "select" /\ wpc' = "flush" /\ deleteReqCh' # deleteReqCh) => Len(batch') = 50
  /\ wpc = "flush" => (batch' = batch \/ batch' = <<>>)
  /\ wpc = "flush" => Len(deleteReqCh') >= Len(deleteReqCh)

\* C8: the batch never holds more than 50 requests and holds 50 only while
\* it is being flushed; the receive that brings it to 50 requests (however
\* many codes they carry) starts the flush, and nothing is dequeued until
\* the flush is over.
C8_SizeThreshold == []C8_Inv /\ [][C8_Step]_vars

\* A flush of 50 requests carrying 100 short codes.
C8_Witness ==
  /\ wpc = "flush"
  /\ Len(batch) = 50
  /\ "u1" \in DOMAIN userURLs
  /\ Len(userURLs["u1"]) = 100

\* The stated states. A sleep with an empty batch is the worker polling its
\* queue and counts as draining-queue; idle-wait is a wait that holds a batch.
C9_Draining(w, b) == w = "select" \/ (w = "sleep" /\ b = <<>>)

C9_IdleWait(w, b) == w = "sleep" /\ b # <<>>

C9_StatedStep ==
  /\ (C9_Draining(wpc, batch) /\ wpc' = "flush") => Len(batch') >= batchSize
  /\ (C9_Draining(wpc, batch) /\ C9_IdleWait(wpc', batch')) =>
       (deleteReqCh = <<>> /\ batch # <<>>)
  /\ (C9_IdleWait(wpc, batch) /\ ~C9_IdleWait(wpc', batch')) => wpc' = "flush"
  /\ (wpc = "flush" /\ wpc' # wpc) => (C9_Draining(wpc', batch') /\ batch' = <<>>)

\* C9: the worker starts in draining-queue with an empty batch; it goes to
\* flushing only at the size threshold, to idle-wait only when the queue is
\* empty and the batch is not, from idle-wait to flushing, and after every
\* flush back to draining-queue with an empty batch; nothing else occurs.
C9_StatedMachine ==
  /\ (wpc = "select" /\ batch = <<>>)
  /\ [][C9_StatedStep]_vars

C9_Step ==
  /\ (wpc = "select" /\ wpc' = "flush") =>
       \/ Len(batch') >= batchSize
       \/ (deleteReqCh = <<>> /\ batch # <<>> /\ batch' = batch)
  /\ (wpc = "select" /\ wpc' = "sleep") => (deleteReqCh = <<>> /\ batch = <<>>)
  /\ (wpc = "sleep" /\ wpc' # wpc) => wpc' = "select"
  /\ (wpc = "flush" /\ wpc' # wpc) =>
       /\ batch' = <<>>
       /\ Len(batch) >= batchSize => wpc' = "select"
       /\ Len(batch) < batchSize => wpc' = "sleep"

\* The machine deleteWorker follows instead: it starts in draining-queue
\* with an empty batch; it goes draining-queue -> flushing when the size threshold is reached or when
\* the queue is empty and the batch is not; draining-queue -> idle-wait when
\* queue and batch are both empty; flushing -> draining-queue after a
\* threshold flush and flushing -> idle-wait after an empty-queue flush, the
\* batch empty either way; idle-wait -> draining-queue when the interval is
\* over; no other transition occurs.
C9_Machine ==
  /\ (wpc = "select" /\ batch = <<>>)
  /\ [](wpc \in {"select", "flush", "sleep"})
  /\ [][C9_Step]_vars

RECURSIVE flatten(_)
flatten(ss) == IF ss = <<>> THEN <<>> ELSE Head(ss) \o flatten(Tail(ss))

\* The short codes of the batch's requests of userID, in batch order.
codesInOrder(b, userID) ==
  LET mine == SelectSeq(b, LAMBDA r : r.UserID = userID)
  IN flatten([k \in 1..Len(mine) |-> mine[k].ShortURLs])

\* C10: during a flush userURLs has exactly the owners occurring in the
\* batch, each with the concatenation in batch order of the codes of its
\* requests; every call made carries exactly that list for its owner; no
\* owner is called twice; and when the loop is over every owner was called.
C10_FlushGrouping ==
  /\ wpc # "flush" => calls = <<>>
  /\ wpc = "flush" =>
       /\ DOMAIN userURLs = {batch[k].UserID : k \in 1..Len(batch)}
       /\ \A u \in DOMAIN userURLs : userURLs[u] = codesInOrder(batch, u)
       /\ \A k \in 1..Len(calls) : calls[k].urls = codesInOrder(batch, calls[k].userID)
       /\ \A k1, k2 \in 1..Len(calls) : calls[k1].userID = calls[k2].userID => k1 = k2
       /\ {calls[k].userID : k \in 1..Len(calls)} = DOMAIN userURLs \ todo
       /\ todo \subseteq DOMAIN userURLs

\* A finished flush of three requests: two owners, one of them with the
\* merged codes of two requests.
C10_Witness ==
  /\ wpc = "flush"
  /\ todo = {}
  /\ Len(batch) = 3
  /\ Len(calls) = 2
  /\ \E k \in 1..Len(calls) : calls[k].urls = <<"c1", "c1", "c2">>

\* Caller t's Shorten call returns in this step.
ShortenReturns(t) == ret'[t].op = "Shorten" /\ nsaved' = nsaved + 1 /\ ret'[t].n = nsaved'

\* The stored records with original URL o.
recordsOf(st, o) == {r \in st : r.Original = o}

\* C11: a Shorten of an original URL that a stored record already has returns
\* ErrURLAlreadyExists with that record's short code, and the repository
\* still holds one record for that original URL, whichever repository it is.
C11_ShortenIdempotent ==
  [][\A t \in Threads :
       (ShortenReturns(t) /\ recordsOf(store, ret'[t].args[1]) # {}) =>
         /\ ret'[t].err = "ErrURLAlreadyExists"
         /\ \E r \in recordsOf(store, ret'[t].args[1]) : ret'[t].url.Short = r.Short
         /\ Cardinality(recordsOf(store', ret'[t].args[1])) = 1]_vars

\* C12: a Shorten of an original URL that a concurrent Shorten of another
\* owner has stored first creates no record and returns ErrURLAlreadyExists
\* with the id, short code and owner of the stored record, which is unchanged.
C12_ConcurrentShorten ==
  [][\A t \in Threads :
       (/\ ShortenReturns(t)
        /\ \E r \in recordsOf(store, ret'[t].args[1]) : r.UserID # ret'[t].args[3]) =>
         /\ store' = store
         /\ ret'[t].err = "ErrURLAlreadyExists"
         /\ \E r \in store : /\ r.Original = ret'[t].args[1]
                             /\ ret'[t].url.ID = r.ID
                             /\ ret'[t].url.Short = r.Short
                             /\ ret'[t].url.UserID = r.UserID]_vars

\* Record r is still stored in st2, changed at most from not deleted to deleted.
C13_Kept(r, st2) ==
  \E r2 \in st2 : /\ r2.Short = r.Short
                  /\ r2.ID = r.ID
                  /\ r2.Original = r.Original
                  /\ r2.UserID = r.UserID
                  /\ r.IsDeleted => r2.IsDeleted

\* C13: every step of the service keeps every stored record under its short
\* code with the same id, original URL and owner, and a record that is
\* deleted stays deleted.
C13_RecordLifecycle == [][\A r \in store : C13_Kept(r, store')]_vars

\* Caller t's Resolve call returns in this step (with a new return value).
ResolveReturns(t) == ret'[t] # ret[t] /\ ret'[t].op = "Resolve"

\* No record with short code c is stored (records are never removed, so none
\* ever was).
C14_NeverStored(c) == \A r \in store : r.Short # c

C14_Step ==
  \A t \in Threads :
    ResolveReturns(t) =>
      /\ store' = store
      /\ C14_NeverStored(ret'[t].args[1]) =>
           (ret'[t].err = "ErrNotFound" /\ ret'[t].url = NoURL)

GetUserURLsReturns(t) == ret'[t] # ret[t] /\ ret'[t].op = "GetUserURLs"

\* C15: GetUserURLs for an owner without stored records returns an empty
\* collection and no error.
C15_EmptyNotError ==
  [][\A t \in Threads :
       (GetUserURLsReturns(t) /\ \A r \in store : r.UserID # ret'[t].args[1]) =>
         (ret'[t].urls = {} /\ ret'[t].err = "nil")]_vars

\* The worker's repo.BatchDelete call returns in this step.
BatchDeleteReturns == Len(calls') = Len(calls) + 1

\* The arguments and error of the call that returns in this step.
lastCall == calls'[Len(calls')]

\* Record r is one the call BatchDelete(urls, userID) is about.
matches(r, urls, userID) == r.Short \in Range(urls) /\ r.UserID = userID

sameButDeleted(r, r2) ==
  /\ r2.ID = r.ID /\ r2.Original = r.Original
  /\ r2.Short = r.Short /\ r2.UserID = r.UserID

C16_Step ==
  (BatchDeleteReturns /\ lastCall.err = "nil") =>
    /\ Cardinality(store') = Cardinality(store)
    /\ \A r \in store : \E r2 \in store' :
         /\ sameButDeleted(r, r2)
         /\ r2.IsDeleted <=> (r.IsDeleted \/ matches(r, lastCall.urls, lastCall.userID))
    /\ \A r2 \in store' : \E r \in store : sameButDeleted(r, r2)

\* C16: a repository BatchDelete(codes, owner) call that succeeds leaves
\* deleted = true on exactly the records that had it and those with a short
\* code of codes and that owner; no record is added or removed, and no id,
\* original URL, short code or owner changes.
C16_BatchDeleteEffect == [][C16_Step]_vars

\* A successful call has deleted a record while a record of another user with
\* a listed code, and a record deleted before, are stored too.
C16_Witness ==
  /\ wpc = "flush" /\ calls # <<>>
  /\ calls[Len(calls)].err = "nil"
  /\ \E r \in store : r.IsDeleted /\ matches(r, calls[Len(calls)].urls, calls[Len(calls)].userID)
  /\ \E r \in store : /\ ~r.IsDeleted
                      /\ r.Short \in Range(calls[Len(calls)].urls)
                      /\ r.UserID # calls[Len(calls)].userID

\* The call is about no stored record: an empty list, or codes no record has
\* or only records of other users have.
C17_NothingToDelete ==
  \A r \in store : ~matches(r, lastCall.urls, lastCall.userID)

\* C17: a repository BatchDelete call with an empty list, or with codes that
\* do not exist or belong to another user, returns no error and leaves every
\* stored record unchanged.
C17_IgnoredSilently ==
  [][(BatchDeleteReturns /\ C17_NothingToDelete) =>
       (lastCall.err = "nil" /\ store' = store)]_vars

\* C17 amended: such a call leaves every stored record unchanged and returns
\* no error, except that the database repository returns the error of its
\* UPDATE statement when executing it fails, which can happen for a non-empty
\* list only.
C17_IgnoredUnlessExecFails ==
  [][(BatchDeleteReturns /\ C17_NothingToDelete) =>
       /\ store' = store
       /\ lastCall.err # "nil" =>
            (repoKind = "db" /\ lastCall.urls # <<>> /\ lastCall.err = "exec")]_vars

\* Calls of the running flush have returned nil for an empty list and for a
\* code that only another user's record has.
C17_Witness ==
  /\ wpc = "flush" /\ Len(calls) = 2
  /\ store # {}
  /\ \A k \in 1..2 : /\ calls[k].err = "nil"
                     /\ \A r \in store : ~matches(r, calls[k].urls, calls[k].userID)
  /\ \E k \in 1..2 : calls[k].urls = <<>>
  /\ \E k \in 1..2 : \E r \in store : r.Short \in Range(calls[k].urls)

\* Caller t's last call was the latest Shorten, and it returned a record
\* without error.
LatestShorten(t) == ret[t].op = "Shorten" /\ ret[t].n = nsaved /\ ret[t].err = "nil"

\* C18: as long as no later Shorten has been performed, GetByShortURL and
\* Resolve of the short code of the record r that Shorten(x, id, owner)
\* returned without error give a record equal to r in id, original URL x,
\* short code and owner.
C18_RoundTrip ==
  \A t \in Threads :
    LatestShorten(t) =>
      \A res \in Resolve(ret[t].url.Short) :
        /\ res.err = "nil"
        /\ res.url.Original = ret[t].args[1]
        /\ sameButDeleted(ret[t].url, res.url)

\* Every goroutine has made one Save (through Shorten), these are all the
\* Saves made, and their short codes are pairwise distinct.
C19_AllSaved ==
  /\ \A t \in Threads : ret[t].op = "Shorten"
  /\ {ret[t].n : t \in Threads} = 1..nsaved
  /\ \A t1, t2 \in Threads : ret[t1].url.Short = ret[t2].url.Short => t1 = t2

\* C19: when the goroutines' Saves into the in-memory repository, with
\* pairwise distinct short codes, have all returned in whatever order,
\* GetByShortURL finds each of the saved records under its short code.
C19_NoLostSave ==
  (repoKind = "memory" /\ C19_AllSaved) =>
    \A t \in Threads :
      \A res \in repoGetByShortURL(repoKind, store, ret[t].url.Short) :
        res.err = "nil" /\ sameButDeleted(ret[t].url, res.url)

\* Both goroutines' Saves have returned, t2's before t1's, and two records
\* are stored.
C19_Witness ==
  /\ repoKind = "memory" /\ C19_AllSaved
  /\ ret["t2"].n = 1 /\ ret["t1"].n = 2
  /\ Cardinality(store) = 2

\* Writer w was registered when LogEvent call e copied the writers slice.
InSnapshot(e, w) == logcall[e].pc # "start" /\ w \in logcall[e].registered

RECURSIVE sumOver(_, _)
sumOver(f, S) ==
  IF S = {} THEN 0 ELSE LET g == CHOOSE x \in S : TRUE IN f[g] + sumOver(f, S \ {g})

\* All LogEvent calls were made with all MaxWriters writers registered, and
\* every goroutine they started has run.
C20_AllDelivered ==
  /\ \A e \in Events : logcall[e].pc = "done" /\ logcall[e].registered = WriterIDs
  /\ \A g \in Events \X WriterIDs : running[g] = 0

C20_Inv ==
  /\ \A e \in Events, w \in WriterIDs :
       /\ written[<<e, w>>] + running[<<e, w>>] <= 1
       /\ written[<<e, w>>] + running[<<e, w>>] = 1 => InSnapshot(e, w)
  /\ C20_AllDelivered =>
       sumOver(written, Events \X WriterIDs) = MaxEvents * MaxWriters

\* C20: every LogEvent call delivers its event exactly once to each writer
\* registered when it copied the writers slice and to no other, eventually,
\* also with the calls running concurrently; MaxEvents calls made with MaxWriters writers
\* registered give MaxEvents * MaxWriters Write invocations.
C20_AuditFanOut ==
  /\ []C20_Inv
  /\ \A e \in Events, w \in WriterIDs : InSnapshot(e, w) ~> (written[<<e, w>>] = 1)
  /\ [][\A g \in Events \X WriterIDs : written'[g] >= written[g]]_vars

\* Both calls have delivered to both writers.
C20_Witness ==
  /\ C20_AllDelivered
  /\ \A g \in Events \X WriterIDs : written[g] = 1

\* C21: generateShortURL(n) returns a code of exactly n characters of the
\* URL-safe alphabet, for every n up to MaxLen and whatever the random bytes:
\* the unpadded encoding of n bytes has at least n characters, so the slice
\* expression does not panic.
C21_CodeLength ==
  /\ gen.pc = "encode" => Len(EncodeToString(gen.b)) >= gen.n
  /\ gen.pc = "done" =>
       /\ ~gen.panic
       /\ Len(gen.out) = gen.n
       /\ \A k \in 1..Len(gen.out) : gen.out[k] \in 0..63

\* A code of MaxLen characters has been returned.
C21_Witness == gen.pc = "done" /\ ~gen.panic /\ Len(gen.out) = MaxLen /\ MaxLen > 0

\* The objects a request handler reads outside the repository lock.
unlockedReaders(o) ==
  {g \in {"rd", "sh"} : \/ g = "rd" /\ rd.pc = "got" /\ rd.url = o
                        \/ g = "sh" /\ sh.pc = "saved" /\ sh.url = o}

\* C22: the repository is safe for concurrent use: BatchDelete never writes a
\* field of a record object while another thread is reading that object
\* without holding the repository lock.
C22_NoUnlockedAccess == \A o \in Objs : wkWrites(o) => unlockedReaders(o) = {}

\* C22, second half: a record returned by Save or GetByShortURL is not an
\* object of the store.
C22_NotShared ==
  \A o \in Objs : unlockedReaders(o) # {} => \A c \in Codes : data[c] # o

\* The lists of up to MaxCodes short codes.
AllCodeLists == UNION {[1..n -> Codes] : n \in 0..MaxCodes}

\* The permutations and repetitions of list l: the lists with the same codes.
sameCodes(l) == {m \in AllCodeLists : Range(m) = Range(l)}

\* The repository state after a successful BatchDelete(l, u) in state st.
deletedState(st, l, u) ==
  (CHOOSE out \in repoBatchDelete(repoKind, st, l, u) : out.err = "nil").store

C23_Step ==
  (BatchDeleteReturns /\ lastCall.err = "nil") =>
    \A m \in sameCodes(lastCall.urls) :
      /\ deletedState(store, m, lastCall.userID) = store'
      /\ deletedState(store', m, lastCall.userID) = store'

\* C23: a successful repository BatchDelete(codes, owner) leaves the state
\* that every permutation and repetition of codes would have left, and
\* applying it, or any of those, once more changes nothing.
C23_IdempotentAnyOrder == [][C23_Step]_vars

\* A successful call with a repeated code and a second code has deleted a
\* record.
C23_Witness ==
  /\ wpc = "flush" /\ calls # <<>>
  /\ calls[Len(calls)].err = "nil"
  /\ calls[Len(calls)].urls = <<"c1", "c1", "c2">>
  /\ \E r \in store : r.IsDeleted /\ matches(r, calls[Len(calls)].urls, calls[Len(calls)].userID)

\* The orderings of the owners in set S.
orderings(S) == {o \in [1..Cardinality(S) -> S] : Range(o) = S}

\* The state after successful calls BatchDelete(groups[u], u) for the owners
\* u of ordering o, from its k-th on, starting in state st.
RECURSIVE callsInOrder(_, _, _, _)
callsInOrder(st, groups, o, k) ==
  IF k > Len(o) THEN st
  ELSE callsInOrder(deletedState(st, groups[o[k]], o[k]), groups, o, k + 1)

\* C24: whatever order the per-owner calls of a flush are issued in, the
\* repository ends in the same state when no call fails: at the start of the
\* loop over the owner groups, and at every point of it, every two orderings
\* of the groups still to call lead to equal states.
C24_OwnerOrderIrrelevant ==
  wpc = "flush" =>
    \A o1, o2 \in orderings(todo) :
      callsInOrder(store, userURLs, o1, 1) = callsInOrder(store, userURLs, o2, 1)

\* A flush has called both owners' groups without a failure, each group
\* deleting a record, the second owner's group listing the first's code too.
C24_Witness ==
  /\ wpc = "flush" /\ todo = {} /\ Len(calls) = 2
  /\ \A k \in 1..2 : calls[k].err = "nil"
  /\ \E k \in 1..2 : Range(calls[k].urls) = Codes
  /\ \A r \in store : r.IsDeleted
  /\ {r.UserID : r \in store} = Owners

\* The requests sent that are not buffered and not in the worker's batch any
\* more: those whose flush is over or, during a flush, running.
nFlushed ==
  Len(enq) - Len(deleteReqCh) - (IF wpc = "flush" THEN 0 ELSE Len(batch))

\* The state after one successful BatchDelete(req.ShortURLs, req.UserID) per
\* request of reqs[k..], in order, starting in state st.
RECURSIVE onePerRequest(_, _, _)
onePerRequest(st, reqs, k) ==
  IF k > Len(reqs) THEN st
  ELSE onePerRequest(deletedState(st, reqs[k].ShortURLs, reqs[k].UserID), reqs, k + 1)

noCallFailed == \A i \in Tags : result[i] # "err"

\* C25: with no failing repository call and nobody shortening, whenever no
\* flush is running the repository is in the state that one BatchDelete per
\* request flushed so far, applied in the order the requests were enqueued,
\* gives from the initial state, however the worker split them into flushes;
\* once the queue and the batch are empty these are all requests enqueued.
C25_CoalescingTransparent ==
  (wpc # "flush" /\ noCallFailed) =>
    /\ nFlushed \in 0..Len(enq)
    /\ store = onePerRequest(LoadedStore, SubSeq(enq, 1, nFlushed), 1)

\* Three requests, of two owners, were flushed in two flushes without a
\* failure, the first flush with two requests of one owner, and nothing is
\* left in the queue or the batch.
C25_Witness ==
  /\ wpc # "flush" /\ noCallFailed
  /\ Len(enq) = 3 /\ deleteReqCh = <<>> /\ batch = <<>>
  /\ Len(flushes) = 2 /\ Len(flushes[1]) = 2
  /\ flushes[1][1].UserID = flushes[1][2].UserID
  /\ flushes[1][1].ShortURLs # flushes[1][2].ShortURLs
  /\ \A r \in store : r.IsDeleted

\* The flush request number tag went into, and its position among the
\* requests enqueued; 0 while it has none.
flushOf(tag) ==
  IF \E f \in 1..Len(flushes) : tag \in tagsOf(flushes[f])
    THEN CHOOSE f \in 1..Len(flushes) : tag \in tagsOf(flushes[f])
    ELSE 0

enqPos(tag) ==
  IF \E k \in 1..Len(enq) : enq[k].tag = tag
    THEN CHOOSE k \in 1..Len(enq) : enq[k].tag = tag
    ELSE 0

\* The codes of the requests of userID enqueued and flushed in flush f, in
\* the order the requests were enqueued.
codesEnqueued(f, userID) ==
  LET mine == SelectSeq(enq, LAMBDA r : r.UserID = userID /\ flushOf(r.tag) = f)
  IN flatten([k \in 1..Len(mine) |-> mine[k].ShortURLs])

\* C26: requests are flushed in the order they were enqueued: when B was
\* enqueued after A and B is in a flush, A is in that flush or an earlier one;
\* and every repository call of the running flush lists the codes of its
\* owner's requests in the order those requests were enqueued.
C26_Fifo ==
  /\ \A a, b \in Tags :
       (enqPos(a) # 0 /\ enqPos(a) < enqPos(b) /\ flushOf(b) # 0) =>
         (flushOf(a) # 0 /\ flushOf(a) <= flushOf(b))
  /\ wpc = "flush" =>
       \A k \in 1..Len(calls) :
         calls[k].urls = codesEnqueued(Len(flushes), calls[k].userID)

\* Two requests of one owner with different codes, enqueued in the order
\* opposite to the order of their calls to the service, were flushed
\* together in the second flush and the owner's call was made.
C26_Witness ==
  /\ wpc = "flush" /\ Len(flushes) = 2 /\ Len(flushes[2]) = 2
  /\ flushes[2][1].UserID = flushes[2][2].UserID
  /\ flushes[2][1].ShortURLs # flushes[2][2].ShortURLs
  /\ flushes[2][1].ShortURLs # <<>> /\ flushes[2][2].ShortURLs # <<>>
  /\ flushes[2][1].tag > flushes[2][2].tag
  /\ Len(calls) = 1

\* The worker goroutines started, those inside flushBatch and those inside a
\* repository call.
startedWorkers == {w \in WorkerIDs : workers[w].pc # "off"}

flushing == {w \in WorkerIDs : workers[w].pc \in {"flush", "call"}}

calling == {w \in WorkerIDs : workers[w].pc = "call"}

\* A request leaves the channel's buffer or a parked sender is served.
dequeues == buffered' < buffered \/ Len(sendq') < Len(sendq)

C27_Step ==
  dequeues => \E w \in startedWorkers : workers'[w].n = workers[w].n + 1

\* C27: a built service has exactly one worker goroutine; at most one flush
\* and at most one repository call are in progress at any time; and a request
\* leaves the queue only by a step of a started worker.
C27_SingleBatcher ==
  /\ [](/\ svc = "none" => startedWorkers = {}
        /\ svc = "built" => Cardinality(startedWorkers) = 1
        /\ Cardinality(flushing) <= 1
        /\ Cardinality(calling) <= 1)
  /\ [][C27_Step]_vars

\* The worker is inside a repository call of a flush of a full batch while
\* the buffer is full and a sender is parked.
C27_Witness ==
  /\ svc = "built" /\ calling # {}
  /\ \E w \in calling : workers[w].n = batchSize
  /\ buffered = QueueCap /\ sendq # <<>>

\* C28: a started worker that is sleeping or flushing gets back to its select,
\* at its select with a full buffer it can receive, and every caller parked
\* on the full buffer completes its send.
C28_NoStarvation ==
  /\ \A w \in WorkerIDs :
       (workers[w].pc \in {"sleep", "flush", "call"}) ~> (workers[w].pc = "select")
  /\ \A t \in Threads : (caller[t] = "blocked") ~> (caller[t] = "idle")
  /\ [](\A w \in startedWorkers :
          (workers[w].pc = "select" /\ buffered = QueueCap) => ENABLED WReceive(w))

\* Both callers are parked on the full buffer while the worker sleeps.
C28_Witness ==
  /\ buffered = QueueCap /\ Len(sendq) = 2
  /\ \A t \in Threads : caller[t] = "blocked"
  /\ \E w \in startedWorkers : workers[w].pc = "sleep"

\* The stored records of owner o, and the short codes of a set of records.
storedOf(o) == {r \in store : r.UserID = o}

shortCodes(rs) == {r.Short : r \in rs}

\* C29: GetUserURLs returns exactly the stored records of the given owner,
\* the soft-deleted ones included as they are stored.
C29_ExactRecords ==
  [][\A t \in Threads :
       GetUserURLsReturns(t) => ret'[t].urls = storedOf(ret'[t].args[1])]_vars

\* C29, the consequence: the short codes GetUserURLs returns are those of all
\* stored records of the owner, deleted or not.
C29_ShortCodesKept ==
  [][\A t \in Threads :
       GetUserURLsReturns(t) =>
         shortCodes(ret'[t].urls) = shortCodes(storedOf(ret'[t].args[1]))]_vars

\* The number of elements of sequence q equal to x.
timesIn(q, x) == Cardinality({k \in 1..Len(q) : q[k] = x})

\* C30, the file: while no LoadToStorage call is between its read and its
\* return, the file holds the records of the calls that returned, each as
\* often as it was appended, in the order of the calls.
C30_FileHasAll ==
  (\A t \in Threads : ap[t].pc \in {"idle", "locked"}) =>
    /\ Len(readURLs(file)) = Len(appended)
    /\ \A url \in Mirrored : timesIn(readURLs(file), url) = timesIn(appended, url)

\* C30: after concurrent successful LoadToStorage calls the file holds every
\* appended record exactly once, and a LoadFromStorage into an empty
\* repository that has returned has stored each of them under its short code.
C30_MirrorRestored ==
  /\ C30_FileHasAll
  /\ ld.pc = "done" =>
       \A k \in 1..Len(appended) : loaded[appended[k].Short] = appended[k]

====
